---------------------------- MODULE Spec2Model ----------------------------
(***************************************************************************)
(* Vasicek zero-coupon bond pricer (src/main.py): simulation-count         *)
(* normaliser, quasi-random sampler, Euler short-rate simulator,           *)
(* discounting engine and control-variate estimator, driven by run().      *)
(*                                                                         *)
(* Real numbers are held in fixed point: the integer x stands for the      *)
(* real x / Scale.  Every product and quotient is rounded to that grid,    *)
(* as double-precision arithmetic rounds to its own.                       *)
(***************************************************************************)
EXTENDS Integers, Sequences, FiniteSets, TLC

VARIABLES
    n_req,             \* next_power_of_2: the argument n
    n_ret,             \* next_power_of_2: its outcome, [err, val]
    pc,                \* position of run() and of the functions it calls
    input_data,        \* run: the scenario record (a partial function on Fields)
    solver_params,     \* run: the optional solver-configuration record
    initial_rate,      \* run: input_data["Initial Interest Rate"], [v, whole]
    volatility,        \* run: input_data["Volatility"]
    bond_maturity,     \* run: input_data["Maturity Time"] / 12
    num_simulations,   \* run: next_power_of_2(original_num_simulations)
    sobol_seed,        \* the scrambling the Sobol engine draws
    num_steps,         \* simulate_short_rate_quasi_mc: int(round(T / time_step))
    time_grid,         \* simulate_short_rate_quasi_mc: np.linspace(0, T, num_steps + 1)
    normal_samples,    \* simulate_short_rate_quasi_mc: norm.ppf(sobol_samples)
    rate_paths,        \* simulate_short_rate_quasi_mc: the path ensemble
    dtype,             \* the element type np.full gave rate_paths
    step,              \* simulate_short_rate_quasi_mc: the loop variable
    discount_factors,  \* compute_discount_factors: its return value
    mc_estimate,       \* monte_carlo_bond_price: np.mean(final_discount_factors)
    closed_form_price, \* monte_carlo_bond_price: vasicek_bond_price(...)
    result,            \* run: the returned record
    error,             \* the exception that ended run, [kind, key]
    stages,            \* history: the stages started, in order
    iterations,        \* history: the values step took in the loop body
    shape              \* the shape np.full is asked for, <<rows, columns>>

vars == <<n_req, n_ret, pc, input_data, solver_params, initial_rate, volatility,
          bond_maturity, num_simulations, sobol_seed, num_steps, time_grid,
          normal_samples, rate_paths, dtype, step, discount_factors,
          mc_estimate, closed_form_price, result, error, stages, iterations,
          shape>>

-----------------------------------------------------------------------------
(* Bounds of the model *)

MaxRequest == 66000        \* next_power_of_2 is applied to every n in 0..MaxRequest
MaxSims == 4               \* the pipeline is run for requests 0..MaxSims
MaxMonths == 3             \* ... and for maturities of 1..MaxMonths whole months
MaxSeed == 2               \* ... and for MaxSeed scramblings of the sampler

-----------------------------------------------------------------------------
(* Fixed-point arithmetic *)

Scale == 10^6

\* a * b, rounded to the grid (split so no intermediate leaves 32 bits)
Mul(a, b) ==
    LET ah == a \div 1000
        al == a % 1000
    IN  (ah * b) \div 1000 + (al * b) \div Scale

\* a / b, rounded to the grid
Div(a, b) == (a * 1000) \div (b \div 1000)

\* np.sqrt on the grid
Sqrt(x) ==
    LET r == CHOOSE k \in 0..x : k * k <= x /\ (k + 1) * (k + 1) > x
    IN  r * 1000

\* np.exp near 0: 1 + y + y^2/2, non-decreasing in y on the grid
Exp(y) == Scale + y + (y * y) \div (2 * Scale)

\* the cast of a double to int64 on assignment: truncation toward zero
TruncToInt(x) == IF x >= 0 THEN (x \div Scale) * Scale ELSE -(((-x) \div Scale) * Scale)

-----------------------------------------------------------------------------
(* Module-level constants, src/main.py:6-8 *)

KAPPA == Scale \div 10
THETA == (3 * Scale) \div 100
MAX_SIMULATIONS == 2^16
DEFAULT_SIMULATIONS == 10000
TIME_STEP == Scale \div 100

NoError == [kind |-> "None", key |-> ""]

-----------------------------------------------------------------------------
(* next_power_of_2, src/main.py:19-21 *)

RECURSIVE CeilLog2From(_, _)
CeilLog2From(n, k) == IF 2^k >= n THEN k ELSE CeilLog2From(n, k + 1)

\* int(np.log2(n)): the logarithm rounded down instead of up
FloorLog2(n) == IF 2^CeilLog2From(n, 0) = n THEN CeilLog2From(n, 0) ELSE CeilLog2From(n, 0) - 1

\* int(np.ceil(np.log2(n))) for n >= 1
CeilLog2(n) == CeilLog2From(n, 0)

Min(a, b) == IF a <= b THEN a ELSE b

\* np.log2(0) is -inf and int(-inf) raises OverflowError; np.log2 of a
\* negative is nan and int(nan) raises ValueError
next_power_of_2(n) ==
    IF n = 0 THEN [err |-> "OverflowError", val |-> 0]
    ELSE IF n < 0 THEN [err |-> "ValueError", val |-> 0]
    ELSE [err |-> "None", val |-> Min(2^CeilLog2(n), MAX_SIMULATIONS)]

-----------------------------------------------------------------------------
(* run: reading the scenario and the solver configuration, src/main.py:80-90 *)

RequiredFields == {"Initial Interest Rate", "Volatility", "Maturity Time"}

KeyError(k) == [kind |-> "KeyError", key |-> k]

\* d.get(k, default) instead of d[k]: no exception for an absent key
SubscriptOrDefault(d, k) ==
    IF k \in DOMAIN d THEN [err |-> NoError, val |-> d[k]]
    ELSE [err |-> NoError, val |-> [v |-> 0, whole |-> FALSE]]

\* d[k] on a dict: the value, or KeyError(k)
Subscript(d, k) ==
    IF k \in DOMAIN d THEN [err |-> NoError, val |-> d[k]]
    ELSE [err |-> KeyError(k), val |-> [v |-> 0, whole |-> FALSE]]

\* solver_params as run() receives it: None when the caller passes nothing
NotSupplied == [supplied |-> FALSE, has |-> FALSE, n |-> 0]
EmptyParams == [supplied |-> TRUE, has |-> FALSE, n |-> 0]
WithCount(k) == [supplied |-> TRUE, has |-> TRUE, n |-> k]

\* solver_params.get("NumberOfSimulations", 10000)
GetNumberOfSimulations(sp) == IF sp.has THEN sp.n ELSE DEFAULT_SIMULATIONS

\* lines 84-86: the three subscripts, in source order
RunReadFields ==
    /\ pc = "run"
    /\ LET a == Subscript(input_data, "Initial Interest Rate")
           b == Subscript(input_data, "Volatility")
           c == Subscript(input_data, "Maturity Time")
           e == IF a.err # NoError THEN a.err
                ELSE IF b.err # NoError THEN b.err
                ELSE c.err
       IN  IF e # NoError
           THEN /\ error' = e
                /\ pc' = "error"
                /\ UNCHANGED <<initial_rate, volatility, bond_maturity>>
           ELSE /\ initial_rate' = a.val
                /\ volatility' = b.val.v
                /\ bond_maturity' = c.val.v \div 12
                /\ pc' = "config"
                /\ UNCHANGED error
    /\ UNCHANGED <<n_req, n_ret, input_data, solver_params, num_simulations,
                   sobol_seed, num_steps, time_grid, normal_samples, rate_paths,
                   dtype, step, discount_factors, mc_estimate,
                   closed_form_price, result, stages, iterations, shape>>

\* lines 89-90: None has no .get; next_power_of_2 may raise
RunReadConfig ==
    /\ pc = "config"
    /\ IF ~solver_params.supplied
       THEN /\ error' = [kind |-> "AttributeError", key |-> "get"]
            /\ pc' = "error"
            /\ UNCHANGED num_simulations
       ELSE LET p == next_power_of_2(GetNumberOfSimulations(solver_params))
            IN  IF p.err # "None"
                THEN /\ error' = [kind |-> p.err, key |-> ""]
                     /\ pc' = "error"
                     /\ UNCHANGED num_simulations
                ELSE /\ num_simulations' = p.val
                     /\ pc' = "grid"
                     /\ UNCHANGED error
    /\ UNCHANGED <<n_req, n_ret, input_data, solver_params, initial_rate,
                   volatility, bond_maturity, sobol_seed, num_steps, time_grid,
                   normal_samples, rate_paths, dtype, step, discount_factors,
                   mc_estimate, closed_form_price, result, stages, iterations,
                   shape>>

-----------------------------------------------------------------------------
(* simulate_short_rate_quasi_mc, src/main.py:31-49 *)

\* int(round(a / b)): Python rounds halves to even
RoundDiv(a, b) ==
    LET q == a \div b
        r == a % b
    IN  IF 2 * r < b THEN q
        ELSE IF 2 * r > b THEN q + 1
        ELSE IF q % 2 = 0 THEN q ELSE q + 1

NumSteps(total_time) == RoundDiv(total_time, TIME_STEP)

\* np.linspace(0, T, k + 1): multiples of the step T / k, the last set to T
Linspace(total_time, k) ==
    [j \in 0..k |->
        IF k = 0 THEN 0
        ELSE IF j = k THEN total_time
        ELSE j * (total_time \div k)]

\* lines 35-36
ComputeGrid ==
    /\ pc = "grid"
    /\ num_steps' = NumSteps(bond_maturity)
    /\ time_grid' = Linspace(bond_maturity, NumSteps(bond_maturity))
    /\ pc' = "sampler"
    /\ UNCHANGED <<n_req, n_ret, input_data, solver_params, initial_rate,
                   volatility, bond_maturity, num_simulations, sobol_seed,
                   normal_samples, rate_paths, dtype, step, discount_factors,
                   mc_estimate, closed_form_price, result, error, stages,
                   iterations, shape>>

\* The points a scrambled Sobol engine returns lie in (0,1); the model draws
\* them from three quantiles, arranged by the scrambling drawn.
Quantiles == <<158655, 500000, 841345>>

\* generate_sobol_sequence(dim, num_samples), src/main.py:23-29
generate_sobol_sequence(seed, dim, num_samples) ==
    [i \in 1..num_samples |->
        [c \in 0..(dim - 1) |-> Quantiles[((i * seed + c * (seed + 1)) % 3) + 1]]]

\* stats.norm.ppf on those quantiles: -1, 0 and +1 standard deviations
NormPpf(u) ==
    CASE u = 158655 -> -Scale
      [] u = 500000 -> 0
      [] u = 841345 -> Scale

\* lines 39-40
Sampler ==
    /\ pc = "sampler"
    /\ \E seed \in 1..MaxSeed :
          /\ sobol_seed' = seed
          /\ normal_samples' =
                LET sobol_samples == generate_sobol_sequence(seed, num_steps, num_simulations)
                IN  [i \in 1..num_simulations |->
                        [c \in 0..(num_steps - 1) |-> NormPpf(sobol_samples[i][c])]]
    /\ stages' = Append(stages, "sampler")
    /\ pc' = "full"
    /\ UNCHANGED <<n_req, n_ret, input_data, solver_params, initial_rate,
                   volatility, bond_maturity, num_simulations, num_steps,
                   time_grid, rate_paths, dtype, step, discount_factors,
                   mc_estimate, closed_form_price, result, error, iterations,
                   shape>>

\* the dtype np.full infers from its fill value
FillDtype(fill) == IF fill.whole THEN "int64" ELSE "float64"

\* line 42
InitEnsemble ==
    /\ pc = "full"
    /\ shape' = <<num_simulations, num_steps + 1>>
    /\ dtype' = FillDtype(initial_rate)
    /\ rate_paths' = [i \in 1..num_simulations |-> [c \in 0..num_steps |-> initial_rate.v]]
    /\ step' = 1
    /\ stages' = Append(stages, "simulator")
    /\ pc' = "loop"
    /\ UNCHANGED <<n_req, n_ret, input_data, solver_params, initial_rate,
                   volatility, bond_maturity, num_simulations, sobol_seed,
                   num_steps, time_grid, normal_samples, discount_factors,
                   mc_estimate, closed_form_price, result, error, iterations>>

\* lines 45-47: rate_paths[:, step - 1] + dr, for one path
EulerStep(r_prev, z, sigma) ==
    LET dW == Mul(z, Sqrt(TIME_STEP))
        dr == Mul(Mul(KAPPA, THETA - r_prev), TIME_STEP) + Mul(sigma, dW)
    IN  r_prev + dr

\* assignment into an array of the given dtype
Store(dt, x) == IF dt = "int64" THEN TruncToInt(x) ELSE x

\* a loop body that writes the column it reads
PreviousColumn(s) == s - 1

\* line 47: the column the loop body writes
WrittenColumn(s) == s

\* lines 44-47: one iteration of the time-step loop
LoopStep ==
    /\ pc = "loop"
    /\ step <= num_steps
    /\ rate_paths' =
          [i \in 1..num_simulations |->
              [rate_paths[i] EXCEPT ![WrittenColumn(step)] =
                  Store(dtype, EulerStep(rate_paths[i][step - 1],
                                         normal_samples[i][step - 1], volatility))]]
    /\ iterations' = Append(iterations, step)
    /\ step' = step + 1
    /\ UNCHANGED <<n_req, n_ret, pc, input_data, solver_params, initial_rate,
                   volatility, bond_maturity, num_simulations, sobol_seed,
                   num_steps, time_grid, normal_samples, dtype,
                   discount_factors, mc_estimate, closed_form_price, result,
                   error, stages, shape>>

\* line 49: the loop is exhausted and the ensemble is returned
LoopExit ==
    /\ pc = "loop"
    /\ step > num_steps
    /\ pc' = "discount"
    /\ UNCHANGED <<n_req, n_ret, input_data, solver_params, initial_rate,
                   volatility, bond_maturity, num_simulations, sobol_seed,
                   num_steps, time_grid, normal_samples, rate_paths, dtype,
                   step, discount_factors, mc_estimate, closed_form_price,
                   result, error, stages, iterations, shape>>

-----------------------------------------------------------------------------
(* compute_discount_factors, src/main.py:51-58 *)

\* np.diff(time_grid)
Diff(grid, k) == [j \in 0..(k - 1) |-> grid[j + 1] - grid[j]]

\* the slice rate_paths[:, 1:]: every column but the first
AllButFirst(row, j) == row[j + 1]

\* the slice rate_paths[:, :-1]: every column but the last
AllButLast(row, j) == row[j]

RECURSIVE CumSumAt(_, _)
CumSumAt(f, j) == IF j = 0 THEN f[0] ELSE CumSumAt(f, j - 1) + f[j]

\* np.cumsum(f) over the indices 0..k-1
CumSum(f, k) == [j \in 0..(k - 1) |-> CumSumAt(f, j)]

\* lines 55-56, for one path
Integral(row, grid, k) ==
    LET dt == Diff(grid, k)
    IN  CumSum([j \in 0..(k - 1) |-> Mul(AllButLast(row, j), dt[j])], k)

\* lines 55-58 (called at line 65)
ComputeDiscountFactors ==
    /\ pc = "discount"
    /\ discount_factors' =
          [i \in 1..num_simulations |->
              LET integral == Integral(rate_paths[i], time_grid, num_steps)
              IN  [j \in 0..(num_steps - 1) |-> Exp(-integral[j])]]
    /\ stages' = Append(stages, "discounting")
    /\ pc' = "estimate"
    /\ UNCHANGED <<n_req, n_ret, input_data, solver_params, initial_rate,
                   volatility, bond_maturity, num_simulations, sobol_seed,
                   num_steps, time_grid, normal_samples, rate_paths, dtype,
                   step, mc_estimate, closed_form_price, result, error,
                   iterations, shape>>

-----------------------------------------------------------------------------
(* vasicek_bond_price, src/main.py:10-17 *)

vasicek_bond_price(T, r0, sigma, kappa, theta) ==
    LET B_T == Div(Scale - Exp(-Mul(kappa, T)), kappa)
        A_T == Exp(Mul(theta - Div(Mul(sigma, sigma), 2 * Mul(kappa, kappa)), B_T - T)
                   - Div(Mul(Mul(sigma, sigma), Mul(B_T, B_T)), 4 * kappa))
    IN  Mul(A_T, Exp(-Mul(B_T, r0)))

-----------------------------------------------------------------------------
(* monte_carlo_bond_price, src/main.py:67-78, and run's return, 95-98 *)

RECURSIVE SumTo(_, _)
SumTo(f, k) == IF k = 0 THEN 0 ELSE SumTo(f, k - 1) + f[k]

\* np.mean over the paths 1..k
Mean(f, k) == SumTo(f, k) \div k

\* np.var over the paths 1..k: the mean squared deviation from the mean
Var(f, k) ==
    LET m == Mean(f, k)
    IN  Mean([i \in 1..k |-> Mul(f[i] - m, f[i] - m)], k)

ROUND_DIGITS == 10

\* round(x, digits) of a value that has six decimals
Round(x, digits) ==
    IF digits >= 6 THEN x
    ELSE LET q == 10^(6 - digits)
         IN  ((x + q \div 2) \div q) * q

\* line 73
Adjust(mc, mean_final, closed) == mc - (mean_final - closed)

\* lines 68-78: discount_factors[:, -1] needs a last column
Estimate ==
    /\ pc = "estimate"
    /\ IF num_steps = 0
       THEN /\ error' = [kind |-> "IndexError", key |-> ""]
            /\ pc' = "error"
            /\ UNCHANGED <<mc_estimate, closed_form_price, result, stages>>
       ELSE LET final_discount_factors ==
                    [i \in 1..num_simulations |-> discount_factors[i][num_steps - 1]]
                mc == Mean(final_discount_factors, num_simulations)
                closed == vasicek_bond_price(bond_maturity, initial_rate.v,
                                             volatility, KAPPA, THETA)
                adjusted_mc_estimate ==
                    Adjust(mc, Mean(final_discount_factors, num_simulations), closed)
                variance == Var(final_discount_factors, num_simulations)
            IN  /\ mc_estimate' = mc
                /\ closed_form_price' = closed
                /\ result' = <<Round(adjusted_mc_estimate, ROUND_DIGITS),
                               Round(variance, ROUND_DIGITS)>>
                /\ stages' = Append(stages, "estimator")
                /\ pc' = "return"
                /\ UNCHANGED error
    /\ UNCHANGED <<n_req, n_ret, input_data, solver_params, initial_rate,
                   volatility, bond_maturity, num_simulations, sobol_seed,
                   num_steps, time_grid, normal_samples, rate_paths, dtype,
                   step, discount_factors, iterations, shape>>

\* lines 93-98: the pair is unpacked into the returned record
Return ==
    /\ pc = "return"
    /\ result' = [bond_price |-> result[1], variance |-> result[2]]
    /\ pc' = "done"
    /\ UNCHANGED <<n_req, n_ret, input_data, solver_params, initial_rate,
                   volatility, bond_maturity, num_simulations, sobol_seed,
                   num_steps, time_grid, normal_samples, rate_paths, dtype,
                   step, discount_factors, mc_estimate, closed_form_price,
                   error, stages, iterations, shape>>

-----------------------------------------------------------------------------
(* Inputs *)

Value(x, w) == [v |-> x, whole |-> w]

\* initial rates: 0 written as a whole number, and 0.0, 0.03, 0.05
Rates == {Value(0, TRUE), Value(0, FALSE), Value(3 * 10^4, FALSE), Value(5 * 10^4, FALSE)}

\* volatilities 0.01 and 0.02
Volatilities == {Value(10^4, FALSE), Value(2 * 10^4, FALSE)}

\* maturities in months: 1..MaxMonths whole months, and 0.05 of a month
Maturities == {Value(m * Scale, TRUE) : m \in 1..MaxMonths} \cup {Value(5 * 10^4, FALSE)}

Scenario(r, s, m) ==
    [f \in RequiredFields |->
        CASE f = "Initial Interest Rate" -> r
          [] f = "Volatility" -> s
          [] f = "Maturity Time" -> m]

Restrict(d, K) == [f \in K |-> d[f]]

FullScenarios == {Scenario(r, s, m) : r \in Rates, s \in Volatilities, m \in Maturities}

\* one scenario with every proper subset of its fields
PartialScenarios ==
    {Restrict(Scenario(Value(3 * 10^4, FALSE), Value(10^4, FALSE), Value(Scale, TRUE)), K) :
        K \in (SUBSET RequiredFields) \ {RequiredFields}}

Idle ==
    /\ initial_rate = Value(0, FALSE)
    /\ volatility = 0
    /\ bond_maturity = 0
    /\ num_simulations = 0
    /\ sobol_seed = 0
    /\ num_steps = 0
    /\ time_grid = <<>>
    /\ normal_samples = <<>>
    /\ rate_paths = <<>>
    /\ dtype = ""
    /\ step = 0
    /\ discount_factors = <<>>
    /\ mc_estimate = 0
    /\ closed_form_price = 0
    /\ result = <<>>
    /\ error = NoError
    /\ stages = <<>>
    /\ iterations = <<>>
    /\ shape = <<0, 0>>

-----------------------------------------------------------------------------
(* Spec: one invocation of run(), down to every cell of the ensemble *)

Init ==
    /\ pc = "run"
    /\ n_req = 0
    /\ n_ret = [err |-> "None", val |-> 0]
    /\ input_data \in FullScenarios \cup PartialScenarios
    /\ solver_params \in {NotSupplied} \cup {WithCount(k) : k \in 0..MaxSims}
    /\ Idle

Next ==
    \/ RunReadFields
    \/ RunReadConfig
    \/ ComputeGrid
    \/ Sampler
    \/ InitEnsemble
    \/ LoopStep
    \/ LoopExit
    \/ ComputeDiscountFactors
    \/ Estimate
    \/ Return

Spec == Init /\ [][Next]_vars

-----------------------------------------------------------------------------
(* SpecNorm: next_power_of_2 applied to every request in 0..MaxRequest *)

InitNorm ==
    /\ pc = "norm"
    /\ n_req \in 0..MaxRequest
    /\ n_ret = [err |-> "None", val |-> 0]
    /\ input_data = <<>>
    /\ solver_params = NotSupplied
    /\ Idle

Normalize ==
    /\ pc = "norm"
    /\ n_ret' = next_power_of_2(n_req)
    /\ pc' = "norm_done"
    /\ UNCHANGED <<n_req, input_data, solver_params, initial_rate, volatility,
                   bond_maturity, num_simulations, sobol_seed, num_steps,
                   time_grid, normal_samples, rate_paths, dtype, step,
                   discount_factors, mc_estimate, closed_form_price, result,
                   error, stages, iterations, shape>>

NextNorm == Normalize

SpecNorm == InitNorm /\ [][NextNorm]_vars

-----------------------------------------------------------------------------
(* SpecRun: run() up to the allocation of the ensemble, for requests of     *)
(* any size; the ensemble is followed by its shape only                     *)

LargeRequests == {DEFAULT_SIMULATIONS, MAX_SIMULATIONS - 1, MAX_SIMULATIONS,
                  MAX_SIMULATIONS + 1, 10^6}

InitRun ==
    /\ pc = "run"
    /\ n_req = 0
    /\ n_ret = [err |-> "None", val |-> 0]
    /\ input_data \in FullScenarios \cup PartialScenarios
    /\ solver_params \in {NotSupplied, EmptyParams}
                          \cup {WithCount(k) : k \in (0..MaxSims) \cup LargeRequests}
    /\ Idle

\* lines 39-42: the sampler and np.full are asked for num_simulations rows
AllocateEnsemble ==
    /\ pc = "sampler"
    /\ shape' = <<num_simulations, num_steps + 1>>
    /\ pc' = "allocated"
    /\ UNCHANGED <<n_req, n_ret, input_data, solver_params, initial_rate,
                   volatility, bond_maturity, num_simulations, sobol_seed,
                   num_steps, time_grid, normal_samples, rate_paths, dtype,
                   step, discount_factors, mc_estimate, closed_form_price,
                   result, error, stages, iterations>>

NextRun ==
    \/ RunReadFields
    \/ RunReadConfig
    \/ ComputeGrid
    \/ AllocateEnsemble

SpecRun == InitRun /\ [][NextRun]_vars

-----------------------------------------------------------------------------
(* Properties *)

IsPowerOfTwo(p) == \E k \in 0..30 : p = 2^k

AllFieldsPresent == DOMAIN input_data = RequiredFields

IsPrefix(s, t) == Len(s) <= Len(t) /\ s = SubSeq(t, 1, Len(s))

PipelineOrder == <<"sampler", "simulator", "discounting", "estimator">>

EnsembleExists == shape # <<0, 0>>

\* C1: for every positive n <= 65536, next_power_of_2(n) is the smallest
\* power of two >= n; for every n > 65536 it is exactly 65536.
C1_SmallestPowerOfTwo ==
    (pc = "norm_done" /\ n_req >= 1) =>
        /\ n_ret.err = "None"
        /\ IF n_req <= 65536
           THEN /\ IsPowerOfTwo(n_ret.val)
                /\ n_ret.val >= n_req
                /\ \A k \in 0..30 : 2^k >= n_req => 2^k >= n_ret.val
           ELSE n_ret.val = 65536

C1_Witness == pc = "norm_done" /\ n_req = 65537 /\ n_ret.val = 65536

C1_WitnessBelowCap == pc = "norm_done" /\ n_req = 10000 /\ n_ret.val = 16384

\* C2: a request of 0 or of 1 is normalised to a count of at least 1, and
\* neither request ends in an error.
C2_ZeroOrOneYieldsOne ==
    (pc = "norm_done" /\ n_req \in {0, 1}) => (n_ret.err = "None" /\ n_ret.val >= 1)

\* C3: in every invocation of run with its required fields, the ensemble has
\* normalize(N) rows, N being NumberOfSimulations, or 10000 when the key or
\* the whole solver-configuration record is omitted.
C3_RowsAreNormalizedCount ==
    (AllFieldsPresent /\ GetNumberOfSimulations(solver_params) >= 1
        /\ pc \notin {"run", "config"}) =>
        /\ pc # "error"
        /\ num_simulations = next_power_of_2(GetNumberOfSimulations(solver_params)).val
        /\ (pc = "allocated" => shape[1] = num_simulations)

\* C4: column 0 of the ensemble is the initial rate for every path, from the
\* moment the ensemble is initialised, after every iteration of the loop and
\* in the ensemble the simulator returns.
C4_ColumnZeroIsInitialRate ==
    EnsembleExists =>
        \A i \in 1..num_simulations :
            rate_paths[i][0] = input_data["Initial Interest Rate"].v

C4_Witness ==
    /\ pc = "discount"
    /\ Len(iterations) = num_steps
    /\ num_steps >= 8
    /\ \E i \in 1..num_simulations : rate_paths[i][1] # rate_paths[i][0]

\* C5: when a required scenario field is absent, run fails with an error
\* that names a missing field, before anything is sampled or simulated and
\* without a result.
C5_MissingFieldNamed ==
    (~AllFieldsPresent /\ pc # "run") =>
        /\ pc = "error"
        /\ error.kind = "KeyError"
        /\ error.key \in RequiredFields \ DOMAIN input_data
        /\ ~EnsembleExists
        /\ stages = <<>>
        /\ result = <<>>

C5_Witness ==
    /\ pc = "error"
    /\ error = KeyError("Volatility")
    /\ DOMAIN input_data = {"Initial Interest Rate"}

\* C6: the returned price is the closed-form price plus the simulation mean
\* bias (mean terminal discount factor minus closed-form price).
C6_PriceIsClosedFormPlusBias ==
    pc = "done" =>
        result.bond_price =
            Round(closed_form_price + (mc_estimate - closed_form_price), ROUND_DIGITS)

\* C7: every stored rate r[i][t], t >= 1, is the Euler step from r[i][t-1]
\* and shock[i][t-1], unclamped and untruncated, whatever numeric r0 is given.
C7_StoredRateIsEulerStep ==
    EnsembleExists =>
        \A i \in 1..num_simulations : \A t \in 1..(step - 1) :
            rate_paths[i][t] =
                EulerStep(rate_paths[i][t - 1], normal_samples[i][t - 1], volatility)

RECURSIVE LeftRiemann(_, _, _)
\* sum over the segments 0..k-1 of (rate at the left grid point) * (width)
LeftRiemann(row, grid, k) ==
    IF k = 0 THEN 0
    ELSE LeftRiemann(row, grid, k - 1) + Mul(row[k - 1], grid[k] - grid[k - 1])

NonNegativePath(row) == \A j \in 0..(num_steps - 1) : row[j] >= 0

\* C8: the terminal discount factor of every path is exp(-S), S the
\* left-Riemann sum of the rates of columns 0..num_steps-1 (the last column
\* unused); the estimator consumes exactly these; and on a path of
\* non-negative rates the running sum never decreases and the discount
\* factors never increase.
C8_TerminalDiscountIsLeftRiemann ==
    (pc \in {"estimate", "return", "done"} /\ num_steps >= 1) =>
        /\ \A i \in 1..num_simulations :
              /\ discount_factors[i][num_steps - 1]
                    = Exp(-LeftRiemann(rate_paths[i], time_grid, num_steps))
              /\ NonNegativePath(rate_paths[i]) =>
                    \A j \in 1..(num_steps - 1) :
                        /\ LeftRiemann(rate_paths[i], time_grid, j + 1)
                              >= LeftRiemann(rate_paths[i], time_grid, j)
                        /\ discount_factors[i][j] <= discount_factors[i][j - 1]
        /\ pc \in {"return", "done"} =>
              mc_estimate =
                  Mean([i \in 1..num_simulations |->
                          Exp(-LeftRiemann(rate_paths[i], time_grid, num_steps))],
                       num_simulations)

C8_Witness ==
    /\ pc = "done"
    /\ num_steps >= 8
    /\ \E i \in 1..num_simulations :
          /\ NonNegativePath(rate_paths[i])
          /\ rate_paths[i][num_steps] # rate_paths[i][num_steps - 1]
          /\ rate_paths[i][num_steps] # rate_paths[i][0]
          /\ discount_factors[i][num_steps - 1] < discount_factors[i][0]

\* C9: for every maturity of a positive whole number of months, the spacing
\* of the time grid equals the simulator's time step and
\* num_steps * time_step = T.
C9_GridSpacingIsTimeStep ==
    (pc \in {"sampler", "full", "loop", "discount", "estimate", "return", "done"}
        /\ input_data["Maturity Time"].whole /\ input_data["Maturity Time"].v > 0) =>
        /\ num_steps * TIME_STEP = bond_maturity
        /\ \A j \in 0..(num_steps - 1) : time_grid[j + 1] - time_grid[j] = TIME_STEP

\* C10: with every required field present, T > 0 and a positive requested
\* count, the stages run in the order sampler, simulator, discounting,
\* estimator, each once; the loop makes num_steps iterations in increasing
\* order; and run ends returning exactly bond_price and variance.
C10_PipelineCompletes ==
    (AllFieldsPresent /\ input_data["Maturity Time"].v > 0
        /\ solver_params.supplied /\ GetNumberOfSimulations(solver_params) >= 1) =>
        /\ pc # "error"
        /\ IsPrefix(stages, PipelineOrder)
        /\ IsPrefix(iterations, [t \in 1..num_steps |-> t])
        /\ pc = "done" =>
              /\ stages = PipelineOrder
              /\ Len(iterations) = num_steps
              /\ DOMAIN result = {"bond_price", "variance"}

=============================================================================
